---- MODULE Spec2Model ----
(***************************************************************************)
(* Model of SecuriTutor's agent.py: the command loop of SecurityStudyAgent *)
(* (chat), the progress store (load_progress / save_progress), the quiz    *)
(* response parser (generate_quiz) and the quiz runner (take_quiz).        *)
(*                                                                         *)
(* Text is modelled as a sequence of tokens.  A Python str that the        *)
(* program handles word by word (an input line, a topic, an answer) is a   *)
(* sequence of words, the word " " standing for a run of blanks.  A JSON   *)
(* document (the progress file, the model's response) is a sequence of     *)
(* lexical tokens.  Python values produced by the json module are tagged   *)
(* values [t |-> type, v |-> content].                                     *)
(***************************************************************************)
EXTENDS Integers, Sequences, FiniteSets, TLC

VARIABLES
    pc,          \* "start" | "prompt" | "quiz" | "exited"
    exit_code,   \* process exit status, -1 while running
    file,        \* study_progress.json: [exists, data]
    progress,    \* self.progress
    line,        \* the last line returned by input()
    out,         \* the last message printed
    text,        \* response.text of the model call of the command being
                 \* handled, <<>> if it made none or the call failed
    quiz_data,   \* take_quiz's quiz_data    (its frame: these three have
    qi,          \* take_quiz's i             their initial value when
    score        \* take_quiz's score         take_quiz is not running)

vars == <<pc, exit_code, file, progress, line, out, text, quiz_data, qi, score>>

----------------------------------------------------------------------------
(* Bounds *)

MaxQuizzes == 2      \* quizzes entered per session
MaxTextLen == 4      \* length of the enumerated response texts

----------------------------------------------------------------------------
(* Python values as the json module builds them *)

JStr(s)   == [t |-> "str", v |-> s]
JInt(n)   == [t |-> "int", v |-> n]
JArr(a)   == [t |-> "arr", v |-> a]
JObj(f)   == [t |-> "obj", v |-> f]
JNone     == [t |-> "none", v |-> 0]

RECURSIVE GCD(_, _)
GCD(a, b) == IF b = 0 THEN a ELSE GCD(b, a % b)

\* a float that is the quotient a/b, kept as a reduced fraction
JFloat(a, b) ==
    LET g == IF a = 0 THEN b ELSE GCD(a, b)
    IN  [t |-> "float", v |-> <<a \div g, b \div g>>]

K(name) == <<name>>         \* a one-word string, used for dictionary keys

HasKey(o, k) == o.t = "obj" /\ K(k) \in DOMAIN o.v
Get(o, k)    == o.v[K(k)]

----------------------------------------------------------------------------
(* Lexical tokens of a text *)

P(c)           == [t |-> "p",     s |-> <<c>>, n |-> 0, d |-> 1]
StrTok(s)      == [t |-> "str",   s |-> s,     n |-> 0, d |-> 1]
IntTok(k)      == [t |-> "int",   s |-> <<>>,  n |-> k, d |-> 1]
FloatTok(a, b) == [t |-> "float", s |-> <<>>,  n |-> a, d |-> b]
Word(w)        == [t |-> "word",  s |-> <<w>>, n |-> 0, d |-> 1]
\* an integer literal of more digits than int() converts
BigIntTok      == [t |-> "bigint", s |-> <<>>, n |-> 0, d |-> 1]

\* the order in which json.dump writes the keys of the documents of this
\* model (dictionaries keep insertion order)
KeyOrder ==
    << K("topics_studied"), K("quiz_scores"), K("total_questions"),
       K("correct_answers"), K("topic"), K("date"), K("score"), K("total"),
       K("accuracy"), K("version"),
       K("question"), K("options"), K("correct"), K("explanation") >>

KeysOf(f) == SelectSeq(KeyOrder, LAMBDA k : k \in DOMAIN f)

RECURSIVE Dumps(_), DumpItems(_), DumpMembers(_, _)

\* json.dump: the token sequence written for a value
Dumps(x) ==
    CASE x.t = "str"   -> <<StrTok(x.v)>>
      [] x.t = "int"   -> <<IntTok(x.v)>>
      [] x.t = "float" -> <<FloatTok(x.v[1], x.v[2])>>
      [] x.t = "arr"   -> <<P("[")>> \o DumpItems(x.v) \o <<P("]")>>
      [] x.t = "obj"   -> <<P("{")>> \o DumpMembers(x.v, KeysOf(x.v)) \o <<P("}")>>

DumpItems(a) ==
    IF a = <<>> THEN <<>>
    ELSE IF Len(a) = 1 THEN Dumps(a[1])
    ELSE Dumps(a[1]) \o <<P(",")>> \o DumpItems(Tail(a))

DumpMembers(f, ks) ==
    IF ks = <<>> THEN <<>>
    ELSE LET m == <<StrTok(ks[1]), P(":")>> \o Dumps(f[ks[1]])
         IN  IF Len(ks) = 1 THEN m
             ELSE m \o <<P(",")>> \o DumpMembers(f, Tail(ks))

\* results of the decoder: a value and the position after it, or the
\* exception raised
Fail      == [ok |-> FALSE, val |-> JNone, pos |-> 0, error |-> "JSONDecodeError"]
Raises(e) == [ok |-> FALSE, val |-> JNone, pos |-> 0, error |-> e]
Ok(x, p)  == [ok |-> TRUE, val |-> x, pos |-> p, error |-> ""]

IsP(s, p, c) == p <= Len(s) /\ s[p] = P(c)

\* the dictionary built from the members read so far: a repeated key keeps
\* its last value
MkObj(ks, xs) ==
    [k \in {ks[i] : i \in DOMAIN ks} |->
        xs[CHOOSE i \in DOMAIN ks :
              ks[i] = k /\ \A j \in DOMAIN ks : ks[j] = k => j <= i]]

RECURSIVE ParseValue(_, _), ParseItems(_, _, _), ParseMembers(_, _, _, _)

\* json.loads' decoder: the value that starts at position p of s
ParseValue(s, p) ==
    IF p > Len(s) THEN Fail
    ELSE CASE s[p].t = "str"   -> Ok(JStr(s[p].s), p + 1)
           [] s[p].t = "int"   -> Ok(JInt(s[p].n), p + 1)
           [] s[p].t = "float" -> Ok(JFloat(s[p].n, s[p].d), p + 1)
           [] s[p].t = "bigint" -> Raises("ValueError")
           [] s[p] = P("[")    ->
                IF IsP(s, p + 1, "]") THEN Ok(JArr(<<>>), p + 2)
                ELSE ParseItems(s, p + 1, <<>>)
           [] s[p] = P("{")    ->
                IF IsP(s, p + 1, "}") THEN Ok(JObj(MkObj(<<>>, <<>>)), p + 2)
                ELSE ParseMembers(s, p + 1, <<>>, <<>>)
           [] OTHER            -> Fail

ParseItems(s, p, acc) ==
    LET r == ParseValue(s, p)
    IN  IF ~r.ok THEN r
        ELSE IF IsP(s, r.pos, ",") THEN ParseItems(s, r.pos + 1, Append(acc, r.val))
        ELSE IF IsP(s, r.pos, "]") THEN Ok(JArr(Append(acc, r.val)), r.pos + 1)
        ELSE Fail

ParseMembers(s, p, ks, xs) ==
    IF ~(p + 1 <= Len(s) /\ s[p].t = "str" /\ s[p + 1] = P(":")) THEN Fail
    ELSE LET r == ParseValue(s, p + 2)
         IN  IF ~r.ok THEN r
             ELSE IF IsP(s, r.pos, ",")
                  THEN ParseMembers(s, r.pos + 1, Append(ks, s[p].s), Append(xs, r.val))
             ELSE IF IsP(s, r.pos, "}")
                  THEN Ok(JObj(MkObj(Append(ks, s[p].s), Append(xs, r.val))), r.pos + 1)
             ELSE Fail

\* json.loads(s): ok is FALSE where it raises, error names the exception
\* (JSONDecodeError also for extra data after the value)
Loads(s) ==
    LET r == ParseValue(s, 1)
    IN  IF r.ok /\ r.pos # Len(s) + 1 THEN Fail ELSE r

----------------------------------------------------------------------------
(* Python str methods on word sequences *)

LowerWord(w) ==
    CASE w = "QUIT"     -> "quit"
      [] w = "Help"     -> "help"
      [] w = "Explain"  -> "explain"
      [] w = "QUIZ"     -> "quiz"
      [] w = "Phishing" -> "phishing"
      [] OTHER          -> w

UpperWord(w) ==
    CASE w = "a" -> "A"
      [] w = "b" -> "B"
      [] w = "c" -> "C"
      [] w = "d" -> "D"
      [] OTHER   -> w

\* upper() left out
UpperForgotten(l) == l

Lower(l) == [i \in DOMAIN l |-> LowerWord(l[i])]
Upper(l) == [i \in DOMAIN l |-> UpperWord(l[i])]

RECURSIVE LStrip(_), RStrip(_)
LStrip(l) == IF l # <<>> /\ l[1] = " " THEN LStrip(Tail(l)) ELSE l
RStrip(l) == IF l # <<>> /\ l[Len(l)] = " " THEN RStrip(SubSeq(l, 1, Len(l) - 1)) ELSE l
Strip(l)  == RStrip(LStrip(l))

StartsWith(l, pre) == Len(l) >= Len(pre) /\ SubSeq(l, 1, Len(pre)) = pre

\* l.replace(pat, ''): every non-overlapping occurrence, left to right
RECURSIVE RemoveAll(_, _)
RemoveAll(l, pat) ==
    IF Len(l) < Len(pat) THEN l
    ELSE IF StartsWith(l, pat) THEN RemoveAll(SubSeq(l, Len(pat) + 1, Len(l)), pat)
    ELSE <<l[1]>> \o RemoveAll(Tail(l), pat)

\* text.find(c) and text.rfind(c): 0-based index, -1 when absent
Find(s, c) ==
    IF \E i \in DOMAIN s : s[i] = P(c)
    THEN (CHOOSE i \in DOMAIN s : s[i] = P(c) /\ \A j \in 1..(i - 1) : s[j] # P(c)) - 1
    ELSE -1

RFind(s, c) ==
    IF \E i \in DOMAIN s : s[i] = P(c)
    THEN (CHOOSE i \in DOMAIN s : s[i] = P(c) /\ \A j \in (i + 1)..Len(s) : s[j] # P(c)) - 1
    ELSE -1

\* text[a:b] for 0 <= a, 0 <= b
Slice(s, a, b) == SubSeq(s, a + 1, IF b > Len(s) THEN Len(s) ELSE b)

----------------------------------------------------------------------------
(* Progress store *)

ProgressRecord(ts, qs, tq, ca) ==
    JObj(  (K("topics_studied")  :> JArr(ts))
        @@ (K("quiz_scores")     :> JArr(qs))
        @@ (K("total_questions") :> JInt(tq))
        @@ (K("correct_answers") :> JInt(ca)))

EmptyProgress == ProgressRecord(<<>>, <<>>, 0, 0)

TopicEntry(topic, date) ==
    JObj((K("topic") :> JStr(topic)) @@ (K("date") :> JStr(date)))

QuizScore(date, s, n, acc) ==
    JObj(  (K("date")     :> JStr(date))
        @@ (K("score")    :> JInt(s))
        @@ (K("total")    :> JInt(n))
        @@ (K("accuracy") :> acc))

NoFile       == [exists |-> FALSE, data |-> <<>>]
FileOf(data) == [exists |-> TRUE, data |-> data]

\* load_progress: the value of self.progress after the call
load_progress(f) ==
    IF f.exists /\ Loads(f.data).ok
    THEN Loads(f.data).val
    ELSE EmptyProgress

\* save_progress losing the end of the document
save_progress_truncated(p) == FileOf(SubSeq(Dumps(p), 1, Len(Dumps(p)) - 1))

\* save_progress: the file after the call
save_progress(p) == FileOf(Dumps(p))

----------------------------------------------------------------------------
(* Inputs *)

\* lines the user may type at the "You: " prompt
InputLines ==
    { <<" ", "QUIT", " ">>, <<"Help">>, <<"progress">>,
      <<"explain", " ", "phishing">>, <<"Explain", " ", " ", "Phishing", " ">>,
      <<"explain", " ", "explain", " ", "sql", " ", "injection">>,
      <<"explain", " ">>,
      <<"QUIZ", " ", "phishing">>,
      <<"quiz">>, <<>> }

\* lines the user may type at the "Your answer (A/B/C/D): " prompt
AnswerLines ==
    { <<"A">>, <<" ", "b", " ">>, <<"a", " ", "b">> }

\* values of datetime.now().isoformat()
Dates == { <<"2025-01-01T10:00:00">> }

\* a QuizQuestion as the model writes it
QuestionTokens(correct) ==
    << P("{"),
       StrTok(K("question")), P(":"), StrTok(<<"What", " ", "is", " ", "it?">>), P(","),
       StrTok(K("options")), P(":"), P("["),
           StrTok(<<"A)", " ", "one">>), P(","), StrTok(<<"B)", " ", "two">>), P(","),
           StrTok(<<"C)", " ", "three">>), P(","), StrTok(<<"D)", " ", "four">>),
       P("]"), P(","),
       StrTok(K("correct")), P(":"), StrTok(<<correct>>), P(","),
       StrTok(K("explanation")), P(":"), StrTok(<<"because">>),
       P("}") >>

\* a question object without its "correct" member
NoCorrectTokens ==
    << P("{"),
       StrTok(K("question")), P(":"), StrTok(<<"What?">>), P(","),
       StrTok(K("options")), P(":"), P("["), StrTok(<<"A)">>), P("]"), P(","),
       StrTok(K("explanation")), P(":"), StrTok(<<"because">>),
       P("}") >>

\* a question object without its "explanation" member
NoExplanationTokens ==
    << P("{"),
       StrTok(K("question")), P(":"), StrTok(<<"What?">>), P(","),
       StrTok(K("options")), P(":"), P("["), StrTok(<<"A)">>), P("]"), P(","),
       StrTok(K("correct")), P(":"), StrTok(<<"A">>),
       P("}") >>

\* response texts of the model to the quiz prompt
QuizTexts ==
    { \* prose only
      <<Word("Sorry,"), Word("no"), Word("quiz")>>,
      \* an array of two questions inside prose
      <<Word("Here:"), P("[")>> \o QuestionTokens("A") \o <<P(",")>>
          \o QuestionTokens("B") \o <<P("]"), Word("Enjoy!")>>,
      \* one question
      <<P("[")>> \o QuestionTokens("A") \o <<P("]")>>,
      \* one question whose "correct" is lower case
      <<P("[")>> \o QuestionTokens("b") \o <<P("]")>>,
      \* the empty array
      <<P("["), P("]")>>,
      \* a trailing comma: not JSON
      <<P("[")>> \o QuestionTokens("A") \o <<P(","), P("]")>>,
      \* a "]" in the prose after the array
      <<P("[")>> \o QuestionTokens("A") \o <<P("]"), Word("see"), P("["), IntTok(1), P("]")>>,
      \* the last "]" before the first "["
      <<P("]"), Word("then"), P("[")>>,
      \* a single question object, not wrapped in an array
      QuestionTokens("A"),
      \* a good question followed by one without "correct"
      <<P("[")>> \o QuestionTokens("A") \o <<P(",")>> \o NoCorrectTokens \o <<P("]")>>,
      \* a question without "explanation"
      <<P("[")>> \o NoExplanationTokens \o <<P("]")>>,
      \* an array holding an integer of more digits than int() converts
      <<Word("Here:"), P("["), BigIntTok, P("]")>> }

\* str(e) of a failed model call, as the set of markers the handlers look for
\* in it (digits as they are, words in error_msg.lower())
ErrorMessages ==
    { {"429"}, {"403", "rate"}, {"permission"}, {"timeout"} }

Succeeds(t) == [ok |-> TRUE,  text |-> t,    err |-> {}]
Fails(e)    == [ok |-> FALSE, text |-> <<>>, err |-> e]

ExplainOutcomes == {Succeeds(<<Word("explanation")>>)} \cup {Fails(e) : e \in ErrorMessages}
QuizOutcomes    == {Succeeds(t) : t \in QuizTexts} \cup {Fails(e) : e \in ErrorMessages}

\* contents of study_progress.json when the program starts
HistoryRecord ==
    ProgressRecord(
        <<TopicEntry(<<"phishing">>, <<"2024-12-31T09:00:00">>)>>,
        <<QuizScore(<<"2024-12-31T09:30:00">>, 1, 2, JFloat(100, 2))>>,
        2, 1)

InconsistentRecord ==
    ProgressRecord(
        <<>>,
        <<QuizScore(<<"2024-12-31T09:30:00">>, 0, 0, JFloat(0, 1))>>,
        0, 3)

CleanFiles ==
    { NoFile,
      FileOf(<<>>),                               \* an empty file
      FileOf(<<P("{"), StrTok(K("topics_studied"))>>),   \* a truncated write
      FileOf(Dumps(EmptyProgress)) }

InitialFiles ==
    CleanFiles \cup
    { FileOf(Dumps(HistoryRecord)),
      FileOf(Dumps(InconsistentRecord)),
      \* JSON, but not a ProgressRecord
      FileOf(<<P("{"), StrTok(K("version")), P(":"), IntTok(1), P("}")>>),
      FileOf(<<P("["), P("]")>>),
      \* a ProgressRecord without its counters
      FileOf(<<P("{"), StrTok(K("topics_studied")), P(":"), P("["), P("]"), P(","),
               StrTok(K("quiz_scores")), P(":"), P("["), P("]"), P("}")>>) }

----------------------------------------------------------------------------
(* Helpers of the handlers.  An "...Error" operator gives the name of the  *)
(* exception the statement raises on that value, "" when it raises none.   *)

\* bool(x)
Truthy(x) ==
    CASE x.t = "arr"   -> x.v # <<>>
      [] x.t = "str"   -> x.v # <<>>
      [] x.t = "obj"   -> DOMAIN x.v # {}
      [] x.t = "int"   -> x.v # 0
      [] x.t = "float" -> x.v[1] # 0
      [] OTHER         -> FALSE

IsNumber(x) == x.t \in {"int", "float"}

\* x + n for a number x and an int n
NumAdd(x, n) ==
    IF x.t = "int" THEN JInt(x.v + n) ELSE JFloat(x.v[1] + n * x.v[2], x.v[2])

SetKey(o, k, x) == JObj((K(k) :> x) @@ o.v)

\* o[k] for a str k
SubscriptError(o, k) ==
    IF o.t # "obj" THEN "TypeError"
    ELSE IF ~HasKey(o, k) THEN "KeyError"
    ELSE ""

\* the first exception among those of es, in order
FirstError(es) ==
    IF \E i \in DOMAIN es : es[i] # ""
    THEN es[CHOOSE i \in DOMAIN es : es[i] # "" /\ \A j \in 1..(i - 1) : es[j] = ""]
    ELSE ""

\* [t['topic'] for t in self.progress['topics_studied']]
TopicsError(p) ==
    IF SubscriptError(p, "topics_studied") # "" THEN SubscriptError(p, "topics_studied")
    ELSE LET ts == Get(p, "topics_studied")
         IN  CASE ts.t = "arr" ->
                    FirstError([i \in DOMAIN ts.v |-> SubscriptError(ts.v[i], "topic")])
               [] ts.t \in {"str", "obj"} ->
                    IF Truthy(ts) THEN "TypeError" ELSE "AttributeError"
               [] OTHER -> "TypeError"

TopicsOf(p) ==
    LET ts == Get(p, "topics_studied").v
    IN  [i \in DOMAIN ts |-> Get(ts[i], "topic")]

\* a membership test that looks at the last element only
ContainsLast(a, x) == a # <<>> /\ a[Len(a)] = x

\* x in a
Contains(a, x) == \E i \in DOMAIN a : a[i] = x

\* the failure message both handlers choose from str(e)
Classify(err) ==
    IF "429" \in err \/ "quota" \in err \/ "rate" \in err THEN "rate_limit"
    ELSE IF "403" \in err \/ "permission" \in err THEN "access_denied"
    ELSE "error_generating"

\* generate_quiz after the model call: the array between the first "[" and
\* the last "]" of the text, [] when there is none; error names an exception
\* of json.loads other than JSONDecodeError, which is not caught
ExtractQuiz(txt) ==
    LET start == Find(txt, "[")
        end   == RFind(txt, "]") + 1
    IN  IF start # -1 /\ end # 0
        THEN LET r == Loads(Slice(txt, start, end))
             IN  IF r.ok THEN [quiz |-> r.val, error |-> ""]
                 ELSE IF r.error = "JSONDecodeError" THEN [quiz |-> JArr(<<>>), error |-> ""]
                 ELSE [quiz |-> JArr(<<>>), error |-> r.error]
        ELSE [quiz |-> JArr(<<>>), error |-> ""]

\* generate_quiz falling back on a stock question when the model call fails
generate_quiz_fallback(r) ==
    IF ~r.ok
    THEN [printed |-> <<Classify(r.err)>>,
          quiz |-> ExtractQuiz(<<P("[")>> \o QuestionTokens("A") \o <<P("]")>>).quiz,
          error |-> ""]
    ELSE [printed |-> <<>>, quiz |-> ExtractQuiz(r.text).quiz,
          error |-> ExtractQuiz(r.text).error]

\* generate_quiz(topic) for an outcome of the model call: what it prints and
\* what it returns, or the exception that leaves it
generate_quiz(r) ==
    IF ~r.ok THEN [printed |-> <<Classify(r.err)>>, quiz |-> JArr(<<>>), error |-> ""]
    ELSE [printed |-> <<>>, quiz |-> ExtractQuiz(r.text).quiz,
          error |-> ExtractQuiz(r.text).error]

\* take_quiz: printing question q, up to the input() call
DisplayError(q) ==
    IF SubscriptError(q, "question") # "" THEN SubscriptError(q, "question")
    ELSE IF SubscriptError(q, "options") # "" THEN SubscriptError(q, "options")
    ELSE IF Get(q, "options").t \in {"int", "float", "none"} THEN "TypeError"
    ELSE ""

\* the accuracy with an integer division
AccuracyFloor(s, n) == JFloat((s \div n) * 100, 1)

\* accuracy = (score / len(quiz_data)) * 100
Accuracy(s, n) == JFloat(s * 100, n)

\* the message chat prints under the final score
Grade(s, n) ==
    IF s = n THEN "perfect"
    ELSE IF 10 * s >= 8 * n THEN "great_job"
    ELSE IF 10 * s >= 6 * n THEN "good_work"
    ELSE "keep_studying"

\* take_quiz, "Save quiz results to progress", after the accuracy: the
\* statements run in order and the first that raises leaves the earlier ones
\* done.  entry is the QuizScore, dt and dc what is added to total_questions
\* and to correct_answers.  Gives the record and the exception ("" when all
\* ran).
AddResults(p, entry, dt, dc) ==
    IF SubscriptError(p, "quiz_scores") # ""
    THEN [p |-> p, error |-> SubscriptError(p, "quiz_scores")]
    ELSE IF Get(p, "quiz_scores").t # "arr"
    THEN [p |-> p, error |-> "AttributeError"]
    ELSE LET p1 == SetKey(p, "quiz_scores", JArr(Append(Get(p, "quiz_scores").v, entry)))
         IN  IF ~HasKey(p1, "total_questions") THEN [p |-> p1, error |-> "KeyError"]
             ELSE IF ~IsNumber(Get(p1, "total_questions")) THEN [p |-> p1, error |-> "TypeError"]
             ELSE LET p2 == SetKey(p1, "total_questions", NumAdd(Get(p1, "total_questions"), dt))
                  IN  IF ~HasKey(p2, "correct_answers") THEN [p |-> p2, error |-> "KeyError"]
                      ELSE IF ~IsNumber(Get(p2, "correct_answers"))
                      THEN [p |-> p2, error |-> "TypeError"]
                      ELSE [p |-> SetKey(p2, "correct_answers",
                                         NumAdd(Get(p2, "correct_answers"), dc)),
                            error |-> ""]

\* RecordQuiz with the two counters taking each other's increment
RecordQuizSwapped(p, date, s, n) ==
    IF n = 0 THEN [p |-> p, error |-> "ZeroDivisionError"]
    ELSE AddResults(p, QuizScore(date, s, n, Accuracy(s, n)), s, n)

\* RecordQuiz counting every question as answered correctly
RecordQuizAllCorrect(p, date, s, n) ==
    IF n = 0 THEN [p |-> p, error |-> "ZeroDivisionError"]
    ELSE AddResults(p, QuizScore(date, s, n, Accuracy(s, n)), n, n)

\* take_quiz, "Save quiz results to progress", for a score s out of n
RecordQuiz(p, date, s, n) ==
    IF n = 0 THEN [p |-> p, error |-> "ZeroDivisionError"]
    ELSE AddResults(p, QuizScore(date, s, n, Accuracy(s, n)), n, s)

\* show_progress: the topics part (the last five entries are printed)
ShowTopicsError(p) ==
    IF SubscriptError(p, "topics_studied") # "" THEN SubscriptError(p, "topics_studied")
    ELSE LET ts == Get(p, "topics_studied")
         IN  CASE ts.t = "arr" ->
                    FirstError([i \in DOMAIN ts.v |->
                        IF i > Len(ts.v) - 5 THEN SubscriptError(ts.v[i], "topic") ELSE ""])
               [] ts.t \in {"str", "obj"} -> IF Truthy(ts) THEN "TypeError" ELSE ""
               [] OTHER -> "TypeError"

\* show_progress: the quiz part (overall accuracy, the last three scores, the
\* average of every accuracy)
ShowQuizError(p) ==
    IF ~HasKey(p, "quiz_scores") THEN "KeyError"
    ELSE IF ~Truthy(Get(p, "quiz_scores")) THEN ""
    ELSE IF ~HasKey(p, "correct_answers") \/ ~HasKey(p, "total_questions") THEN "KeyError"
    ELSE IF ~IsNumber(Get(p, "correct_answers")) \/ ~IsNumber(Get(p, "total_questions"))
    THEN "TypeError"
    ELSE IF ~Truthy(Get(p, "total_questions")) THEN "ZeroDivisionError"
    ELSE LET qs == Get(p, "quiz_scores")
         IN  IF qs.t # "arr" THEN "TypeError"
             ELSE FirstError([i \in DOMAIN qs.v |->
                    FirstError(<< IF i > Len(qs.v) - 3
                                  THEN SubscriptError(qs.v[i], "score") ELSE "",
                                  IF i > Len(qs.v) - 3
                                  THEN SubscriptError(qs.v[i], "total") ELSE "",
                                  SubscriptError(qs.v[i], "accuracy"),
                                  IF HasKey(qs.v[i], "accuracy")
                                     /\ ~IsNumber(Get(qs.v[i], "accuracy"))
                                  THEN "TypeError" ELSE "" >>)])

ShowProgressError(p) ==
    IF ShowTopicsError(p) # "" THEN ShowTopicsError(p) ELSE ShowQuizError(p)

\* len(self.progress['quiz_scores']) where there is such a list
QuizCount(p) ==
    IF HasKey(p, "quiz_scores") /\ Get(p, "quiz_scores").t = "arr"
    THEN Len(Get(p, "quiz_scores").v)
    ELSE 0

\* user_input as chat normalises it, and the branch of chat it selects
Normalise(l) == Lower(Strip(l))

Command(ui) ==
    IF ui = <<"quit">> THEN "quit"
    ELSE IF ui = <<"help">> THEN "help"
    ELSE IF StartsWith(ui, <<"explain", " ">>) THEN "explain"
    ELSE IF StartsWith(ui, <<"quiz", " ">>) THEN "quiz"
    ELSE IF ui = <<"progress">> THEN "progress"
    ELSE "unknown"

TopicOf(ui, word) == Strip(RemoveAll(ui, <<word, " ">>))

----------------------------------------------------------------------------
(* The program *)

Init ==
    /\ pc = "start"
    /\ exit_code = -1
    /\ file \in InitialFiles
    /\ progress = JNone
    /\ line = <<>>
    /\ out = <<>>
    /\ text = <<>>
    /\ quiz_data = JArr(<<>>)
    /\ qi = 0
    /\ score = 0

\* an exception that leaves chat: __main__ prints it, a ValueError as a
\* configuration error, and exits with status 1
Crash(kind) ==
    /\ pc' = "exited"
    /\ exit_code' = 1
    /\ out' = IF kind = "ValueError" THEN <<"Configuration Error">> ELSE <<"Error", kind>>

\* __main__ with GOOGLE_API_KEY unset: __init__ raises ValueError
StartNoKey ==
    /\ pc = "start"
    /\ pc' = "exited"
    /\ exit_code' = 1
    /\ out' = <<"Configuration Error">>
    /\ UNCHANGED <<file, progress, line, text, quiz_data, qi, score>>

\* __main__ with the key set: __init__ loads the progress, chat prints its
\* banner and reaches the prompt
Start ==
    /\ pc = "start"
    /\ progress' = load_progress(file)
    /\ pc' = "prompt"
    /\ out' = <<"banner">>
    /\ UNCHANGED <<exit_code, file, line, text, quiz_data, qi, score>>

Quit ==
    /\ pc = "prompt"
    /\ \E l \in InputLines :
        /\ Command(Normalise(l)) = "quit"
        /\ line' = l
    /\ pc' = "exited"
    /\ exit_code' = 0
    /\ out' = <<"goodbye">>
    /\ text' = <<>>
    /\ UNCHANGED <<file, progress, quiz_data, qi, score>>

Help ==
    /\ pc = "prompt"
    /\ \E l \in InputLines :
        /\ Command(Normalise(l)) = "help"
        /\ line' = l
    /\ out' = <<"commands">>
    /\ text' = <<>>
    /\ UNCHANGED <<pc, exit_code, file, progress, quiz_data, qi, score>>

Unknown ==
    /\ pc = "prompt"
    /\ \E l \in InputLines :
        /\ Command(Normalise(l)) = "unknown"
        /\ line' = l
    /\ out' = <<"not_understood">>
    /\ text' = <<>>
    /\ UNCHANGED <<pc, exit_code, file, progress, quiz_data, qi, score>>

\* the 'progress' command: show_progress
Progress ==
    /\ pc = "prompt"
    /\ \E l \in InputLines :
        /\ Command(Normalise(l)) = "progress"
        /\ line' = l
    /\ IF ShowProgressError(progress) # ""
       THEN Crash(ShowProgressError(progress))
       ELSE /\ out' = <<"progress_report">>
            /\ UNCHANGED <<pc, exit_code>>
    /\ text' = <<>>
    /\ UNCHANGED <<file, progress, quiz_data, qi, score>>

\* the 'explain <topic>' command: explain_concept
Explain ==
    /\ pc = "prompt"
    /\ \E l \in {x \in InputLines : Command(Normalise(x)) = "explain"},
          r \in ExplainOutcomes, date \in Dates :
        LET topic == TopicOf(Normalise(l), "explain")
        IN  /\ line' = l
            /\ text' = r.text
            /\ IF ~r.ok
               THEN /\ out' = <<"let_me_explain", Classify(r.err), "want_to_test">>
                    /\ UNCHANGED <<pc, exit_code, file, progress>>
               ELSE IF TopicsError(progress) \notin {"", "AttributeError"}
               THEN /\ Crash(TopicsError(progress))
                    /\ UNCHANGED <<file, progress>>
               ELSE IF Contains(TopicsOf(progress), JStr(topic))
               THEN /\ out' = <<"let_me_explain", "explanation", "want_to_test">>
                    /\ UNCHANGED <<pc, exit_code, file, progress>>
               ELSE IF TopicsError(progress) = "AttributeError"
               THEN /\ Crash("AttributeError")
                    /\ UNCHANGED <<file, progress>>
               ELSE /\ progress' =
                          SetKey(progress, "topics_studied",
                                 JArr(Append(Get(progress, "topics_studied").v,
                                             TopicEntry(topic, date))))
                    /\ file' = save_progress(progress')
                    /\ out' = <<"let_me_explain", "explanation", "want_to_test">>
                    /\ UNCHANGED <<pc, exit_code>>
    /\ UNCHANGED <<quiz_data, qi, score>>

\* the 'quiz <topic>' command: generate_quiz, then take_quiz up to its first
\* input()
Quiz ==
    /\ pc = "prompt"
    /\ QuizCount(progress) < MaxQuizzes
    /\ \E l \in {x \in InputLines : Command(Normalise(x)) = "quiz"},
          r \in QuizOutcomes :
        LET g == generate_quiz(r)
        IN  /\ line' = l
            /\ text' = r.text
            /\ IF g.error # ""
               THEN /\ Crash(g.error)
                    /\ UNCHANGED <<quiz_data, qi, score>>
               ELSE IF ~Truthy(g.quiz)
               THEN /\ out' = <<"generating">> \o g.printed \o <<"couldnt_generate">>
                    /\ UNCHANGED <<pc, exit_code, quiz_data, qi, score>>
               ELSE /\ quiz_data' = g.quiz
                    /\ score' = 0
                    /\ qi' = 1
                    /\ IF DisplayError(g.quiz.v[1]) # ""
                       THEN Crash(DisplayError(g.quiz.v[1]))
                       ELSE /\ pc' = "quiz"
                            /\ out' = <<"generating">> \o g.printed \o <<"question">>
                            /\ UNCHANGED exit_code
    /\ UNCHANGED <<file, progress>>

\* take_quiz from the return of input() for question qi to the next input(),
\* or to the end of the 'quiz' branch of chat after the last question
Answer ==
    /\ pc = "quiz"
    /\ \E l \in AnswerLines, date \in Dates :
        LET answer == Upper(Strip(l))
            q      == quiz_data.v[qi]
            n      == Len(quiz_data.v)
            s      == IF HasKey(q, "correct") /\ JStr(answer) = Get(q, "correct")
                      THEN score + 1 ELSE score
            rec    == RecordQuiz(progress, date, s, n)
        IN  /\ line' = l
            /\ IF SubscriptError(q, "correct") # ""
               THEN /\ Crash(SubscriptError(q, "correct"))
                    /\ UNCHANGED <<file, progress, quiz_data, qi, score>>
               ELSE IF SubscriptError(q, "explanation") # ""
               THEN /\ Crash(SubscriptError(q, "explanation"))
                    /\ score' = s
                    /\ UNCHANGED <<file, progress, quiz_data, qi>>
               ELSE IF qi < n
               THEN /\ score' = s
                    /\ qi' = qi + 1
                    /\ IF DisplayError(quiz_data.v[qi + 1]) # ""
                       THEN Crash(DisplayError(quiz_data.v[qi + 1]))
                       ELSE /\ out' = <<IF s > score THEN "correct" ELSE "wrong",
                                        "explanation", "question">>
                            /\ UNCHANGED <<pc, exit_code>>
                    /\ UNCHANGED <<file, progress, quiz_data>>
               ELSE /\ progress' = rec.p
                    /\ IF rec.error # ""
                       THEN /\ Crash(rec.error)
                            /\ score' = s
                            /\ UNCHANGED <<file, quiz_data, qi>>
                       ELSE \* take_quiz returns: its frame is gone
                            /\ file' = save_progress(progress')
                            /\ quiz_data' = JArr(<<>>)
                            /\ qi' = 0
                            /\ score' = 0
                            /\ pc' = "prompt"
                            /\ out' = <<IF s > score THEN "correct" ELSE "wrong",
                                        "explanation", "final_score", Grade(s, n)>>
                            /\ UNCHANGED exit_code
    /\ UNCHANGED text

Next ==
    \/ StartNoKey
    \/ Start
    \/ Quit
    \/ Help
    \/ Unknown
    \/ Progress
    \/ Explain
    \/ Quiz
    \/ Answer

Spec == Init /\ [][Next]_vars

\* the program started on a progress file that is absent, unreadable or
\* holds the empty record: it starts from the empty default record
InitEmpty ==
    /\ Init
    /\ file \in CleanFiles

SpecEmpty == InitEmpty /\ [][Next]_vars

----------------------------------------------------------------------------
(* The response parser run on its own, on every short text and on the      *)
(* responses above                                                         *)

Alphabet == { P("["), P("]"), P(","), IntTok(1), BigIntTok, Word("see") }

ShortTexts == UNION { [1..k -> Alphabet] : k \in 0..MaxTextLen }

InitParse ==
    /\ pc = "generate"
    /\ exit_code = -1
    /\ file = NoFile
    /\ progress = EmptyProgress
    /\ line = <<>>
    /\ out = <<>>
    /\ text \in QuizTexts \cup ShortTexts
    /\ quiz_data = JArr(<<>>)
    /\ qi = 0
    /\ score = 0

\* generate_quiz on a model call that returned text
Generate ==
    /\ pc = "generate"
    /\ quiz_data' = generate_quiz(Succeeds(text)).quiz
    /\ out' = generate_quiz(Succeeds(text)).printed
    /\ pc' = IF generate_quiz(Succeeds(text)).error = "" THEN "generated" ELSE "raised"
    /\ UNCHANGED <<exit_code, file, progress, line, text, qi, score>>

NextParse == Generate

SpecParse == InitParse /\ [][NextParse]_vars

----------------------------------------------------------------------------
(* Vocabulary of the properties *)

TopicsStudied   == Get(progress, "topics_studied").v
QuizScores      == Get(progress, "quiz_scores").v
TotalQuestions  == Get(progress, "total_questions").v
CorrectAnswers  == Get(progress, "correct_answers").v

\* the record has the four members of a ProgressRecord, of the right types
IsProgressRecord(p) ==
    /\ p.t = "obj"
    /\ DOMAIN p.v = {K("topics_studied"), K("quiz_scores"),
                     K("total_questions"), K("correct_answers")}
    /\ Get(p, "topics_studied").t = "arr"
    /\ \A i \in DOMAIN Get(p, "topics_studied").v :
          LET e == Get(p, "topics_studied").v[i]
          IN  /\ e.t = "obj"
              /\ DOMAIN e.v = {K("topic"), K("date")}
              /\ Get(e, "topic").t = "str"
              /\ Get(e, "date").t = "str"
    /\ Get(p, "quiz_scores").t = "arr"
    /\ \A i \in DOMAIN Get(p, "quiz_scores").v :
          LET e == Get(p, "quiz_scores").v[i]
          IN  /\ e.t = "obj"
              /\ DOMAIN e.v = {K("date"), K("score"), K("total"), K("accuracy")}
              /\ Get(e, "date").t = "str"
              /\ Get(e, "score").t = "int"
              /\ Get(e, "total").t = "int"
              /\ Get(e, "accuracy").t = "float"
    /\ Get(p, "total_questions").t = "int"
    /\ Get(p, "correct_answers").t = "int"

RECURSIVE SumOf(_, _)
SumOf(a, k) == IF a = <<>> THEN 0 ELSE Get(a[1], k).v + SumOf(Tail(a), k)

\* JSON by its grammar: s is one value / a comma-separated list of values
RECURSIVE WfValue(_), WfElements(_), WfMembers(_)
WfValue(s) ==
    \/ Len(s) = 1 /\ s[1].t \in {"str", "int", "float", "bigint"}
    \/ /\ Len(s) >= 2
       /\ s[1] = P("[")
       /\ s[Len(s)] = P("]")
       /\ (Len(s) = 2 \/ WfElements(SubSeq(s, 2, Len(s) - 1)))
    \/ /\ Len(s) >= 2
       /\ s[1] = P("{")
       /\ s[Len(s)] = P("}")
       /\ (Len(s) = 2 \/ WfMembers(SubSeq(s, 2, Len(s) - 1)))

WfElements(s) ==
    \/ WfValue(s)
    \/ \E k \in 2..(Len(s) - 1) :
          /\ s[k] = P(",")
          /\ WfValue(SubSeq(s, 1, k - 1))
          /\ WfElements(SubSeq(s, k + 1, Len(s)))

WfMember(s) ==
    /\ Len(s) >= 3
    /\ s[1].t = "str"
    /\ s[2] = P(":")
    /\ WfValue(SubSeq(s, 3, Len(s)))

WfMembers(s) ==
    \/ WfMember(s)
    \/ \E k \in 4..(Len(s) - 1) :
          /\ s[k] = P(",")
          /\ WfMember(SubSeq(s, 1, k - 1))
          /\ WfMembers(SubSeq(s, k + 1, Len(s)))

HasOpen(t)  == \E i \in DOMAIN t : t[i] = P("[")
HasClose(t) == \E i \in DOMAIN t : t[i] = P("]")
FirstOpen(t) == CHOOSE i \in DOMAIN t : t[i] = P("[") /\ \A j \in DOMAIN t : t[j] = P("[") => i <= j
LastClose(t) == CHOOSE i \in DOMAIN t : t[i] = P("]") /\ \A j \in DOMAIN t : t[j] = P("]") => j <= i

\* the substring of t from its first "[" through its last "]"
Bracketed(t) == SubSeq(t, FirstOpen(t), LastClose(t))

\* t holds a well-formed JSON array between its first "[" and its last "]"
HoldsArray(t) ==
    /\ HasOpen(t)
    /\ HasClose(t)
    /\ FirstOpen(t) < LastClose(t)
    /\ WfValue(Bracketed(t))

\* "trimmed": l without its leading and trailing blanks
Trimmed(l) ==
    IF \A i \in DOMAIN l : l[i] = " " THEN <<>>
    ELSE SubSeq(l, CHOOSE i \in DOMAIN l : l[i] # " " /\ \A j \in 1..(i - 1) : l[j] = " ",
                   CHOOSE i \in DOMAIN l : l[i] # " " /\ \A j \in (i + 1)..Len(l) : l[j] = " ")

\* "upper-cased"
Capital == [a |-> "A", b |-> "B", c |-> "C", d |-> "D"]
UpperCased(l) == [i \in DOMAIN l |-> IF l[i] \in DOMAIN Capital THEN Capital[l[i]] ELSE l[i]]

\* 1 when the answer just read (line') is the correct one of the question on
\* display, else 0
Point ==
    IF /\ HasKey(quiz_data.v[qi], "correct")
       /\ Get(quiz_data.v[qi], "correct") = JStr(UpperCased(Trimmed(line')))
    THEN 1 ELSE 0

\* __init__ has run load_progress
Loaded == progress # JNone

FailureMessages == {"rate_limit", "access_denied", "error_generating"}

----------------------------------------------------------------------------
(* Properties *)

\* C1: started from the empty default record, after any sequence of commands,
\* model responses, model failures and answers, the record keeps
\* correct_answers <= total_questions.
C1_CorrectAtMostTotal ==
    Loaded =>
        /\ IsProgressRecord(progress)
        /\ CorrectAnswers <= TotalQuestions

\* C1, its case: two quizzes are on record, with right and wrong answers
C1_Witness ==
    /\ pc = "prompt"
    /\ Len(QuizScores) = 2
    /\ 0 < CorrectAnswers
    /\ CorrectAnswers < TotalQuestions

\* C2: the step that completes a quiz of N >= 1 questions with S correct
\* answers adds N to total_questions and S to correct_answers, and appends one
\* quiz_scores entry with score S, total N and accuracy S/N*100.
C2_QuizIsRecorded ==
    [][ (pc = "quiz" /\ pc' = "prompt") =>
          LET N    == Len(quiz_data.v)
              S    == score + Point
              qs   == Get(progress, "quiz_scores").v
              qs2  == Get(progress', "quiz_scores").v
              last == qs2[Len(qs2)]
          IN  /\ N >= 1
              /\ qi = N
              /\ Get(progress', "total_questions").v = Get(progress, "total_questions").v + N
              /\ Get(progress', "correct_answers").v = Get(progress, "correct_answers").v + S
              /\ qs2 = Append(qs, last)
              /\ Get(last, "score") = JInt(S)
              /\ Get(last, "total") = JInt(N)
              /\ Get(last, "accuracy").t = "float"
              /\ Get(last, "accuracy").v[1] * N = 100 * S * Get(last, "accuracy").v[2]
              /\ (N = 1 /\ S = 1 /\ qs = <<>> /\ Get(progress, "total_questions").v = 0
                        /\ Get(progress, "correct_answers").v = 0
                  => /\ Get(progress', "total_questions").v = 1
                     /\ Get(progress', "correct_answers").v = 1
                     /\ Get(last, "accuracy").v = <<100, 1>>) ]_vars

\* C2, its cases: from the empty record, one question answered correctly;
\* and a quiz of two questions with one correct answer (accuracy 50)
C2_Witness ==
    /\ pc = "prompt"
    /\ out = <<"correct", "explanation", "final_score", "perfect">>
    /\ progress = ProgressRecord(<<>>,
                      <<QuizScore(<<"2025-01-01T10:00:00">>, 1, 1, [t |-> "float", v |-> <<100, 1>>])>>,
                      1, 1)

\* C3: started from the empty record, no two entries of topics_studied have
\* the same topic, and a successful 'explain <topic>' for a topic already
\* present appends nothing.
C3_TopicsUnique ==
    /\ [](Loaded =>
            /\ IsProgressRecord(progress)
            /\ \A i, j \in DOMAIN TopicsStudied :
                  Get(TopicsStudied[i], "topic") = Get(TopicsStudied[j], "topic") => i = j)
    /\ [][ ( /\ pc = "prompt"
             /\ out' = <<"let_me_explain", "explanation", "want_to_test">>
             /\ \E i \in DOMAIN TopicsStudied :
                   Get(TopicsStudied[i], "topic")
                      = JStr(TopicOf(Normalise(line'), "explain")) )
           => Get(progress', "topics_studied") = Get(progress, "topics_studied") ]_vars

\* C3, its case: both topics are on record and a topic already present (the
\* first one) has just been explained again, successfully
C3_Witness ==
    /\ pc = "prompt"
    /\ out = <<"let_me_explain", "explanation", "want_to_test">>
    /\ Len(TopicsStudied) = 2
    /\ Get(TopicsStudied[1], "topic") = JStr(TopicOf(Normalise(line), "explain"))

\* C10: started from the empty record, total_questions is the sum of the
\* totals of quiz_scores and correct_answers the sum of its scores, every
\* entry has total >= 1 and 0 <= score <= total, total_questions > 0 whenever
\* quiz_scores is not empty, and no division by zero is raised.
C10_CountersAgreeWithHistory ==
    Loaded =>
        /\ IsProgressRecord(progress)
        /\ TotalQuestions = SumOf(QuizScores, "total")
        /\ CorrectAnswers = SumOf(QuizScores, "score")
        /\ \A i \in DOMAIN QuizScores :
              /\ Get(QuizScores[i], "total").v >= 1
              /\ 0 <= Get(QuizScores[i], "score").v
              /\ Get(QuizScores[i], "score").v <= Get(QuizScores[i], "total").v
        /\ (QuizScores # <<>> => TotalQuestions > 0)
        /\ out # <<"Error", "ZeroDivisionError">>

\* C10, its case: show_progress has run its division on a history of two
\* quizzes of different lengths
C10_Witness ==
    /\ pc = "prompt"
    /\ out = <<"progress_report">>
    /\ Len(QuizScores) = 2
    /\ Get(QuizScores[1], "total") # Get(QuizScores[2], "total")

\* C4: whenever the command loop waits for the next command, loading the
\* progress file gives a record equal to the one in memory (an absent file
\* counting as the empty default record).
C4_FileMatchesMemory ==
    pc = "prompt" => load_progress(file) = progress

\* C4, its case: two topics and two quizzes have been recorded and saved
C4_Witness ==
    /\ pc = "prompt"
    /\ file.exists
    /\ IsProgressRecord(progress)
    /\ Len(TopicsStudied) = 2
    /\ Len(QuizScores) = 2

\* C5: once the agent has started, the process ends only on 'quit': no
\* outcome of a command ends it with an error.
C5_OnlyQuitEnds ==
    (Loaded /\ pc = "exited") => (out = <<"goodbye">> /\ exit_code = 0)

\* C6: generate_quiz returns the parsed array when the text from the first "["
\* through the last "]" is a well-formed JSON array, and the empty sequence
\* when there is no "[" or no "]", when the last "]" precedes the first "[", or
\* when that substring is not well-formed; it raises on no text.
C6_ParserContract ==
    /\ pc # "raised"
    /\ pc = "generated" =>
          /\ quiz_data.t = "arr"
          /\ HoldsArray(text) => Dumps(quiz_data) = Bracketed(text)
          /\ ~HoldsArray(text) => quiz_data = JArr(<<>>)

\* C6 but for "raises on no text": what generate_quiz returns when it returns
C6_ReturnedValue ==
    pc = "generated" =>
          /\ quiz_data.t = "arr"
          /\ HoldsArray(text) => Dumps(quiz_data) = Bracketed(text)
          /\ ~HoldsArray(text) => quiz_data = JArr(<<>>)

\* C6, its case: an array of two questions was taken out of the prose around
\* it
C6_Witness ==
    /\ pc = "generated"
    /\ text[1].t = "word"
    /\ text[Len(text)].t = "word"
    /\ Len(quiz_data.v) = 2
    /\ HasKey(quiz_data.v[2], "correct")

\* C7: whenever the progress file is missing or is not a valid ProgressRecord
\* document, the record in memory after load_progress is the empty default
\* record.
C7_MalformedGivesEmpty ==
    ( /\ pc = "prompt"
      /\ out = <<"banner">>
      /\ ~(file.exists /\ Loads(file.data).ok /\ IsProgressRecord(Loads(file.data).val)) )
    => progress = EmptyProgress

\* C8: take_quiz starts at the first question; every answer read moves it to
\* the next question, once, and counts a point exactly when the answer,
\* trimmed and upper-cased, is the question's "correct"; the QuizScore is
\* appended, once, by the step that reads the answer to the last question and
\* by no other, and the record is saved by that step.
C8_QuizRunner ==
    [][ /\ (pc = "prompt" /\ pc' = "quiz") => (qi' = 1 /\ score' = 0)
        /\ (pc = "quiz" /\ pc' = "quiz") =>
              /\ qi < Len(quiz_data.v)
              /\ qi' = qi + 1
              /\ score' = score + Point
              /\ quiz_data' = quiz_data
              /\ progress' = progress
              /\ file' = file
        /\ (pc = "quiz" /\ pc' = "prompt") =>
              /\ qi = Len(quiz_data.v)
              /\ Len(Get(progress', "quiz_scores").v) = Len(Get(progress, "quiz_scores").v) + 1
              /\ Get(Get(progress', "quiz_scores").v[Len(Get(progress', "quiz_scores").v)], "score")
                    = JInt(score + Point)
              /\ file'.exists
              /\ Loads(file'.data).ok
              /\ Loads(file'.data).val = progress'
        /\ ( /\ HasKey(progress, "quiz_scores")
             /\ Get(progress', "quiz_scores") # Get(progress, "quiz_scores") ) =>
              /\ pc = "quiz"
              /\ qi = Len(quiz_data.v)
              /\ \E e \in {Get(progress', "quiz_scores").v[Len(Get(progress', "quiz_scores").v)]} :
                    Get(progress', "quiz_scores").v = Append(Get(progress, "quiz_scores").v, e)
      ]_vars

\* C8, its case: a quiz of two questions has been completed, the second one
\* answered " b " and counted as correct
C8_Witness ==
    /\ pc = "prompt"
    /\ line = <<" ", "b", " ">>
    /\ out = <<"correct", "explanation", "final_score", "keep_studying">>
    /\ QuizScores # <<>>
    /\ Get(QuizScores[Len(QuizScores)], "total") = JInt(2)
    /\ Get(QuizScores[Len(QuizScores)], "score") = JInt(1)

\* C9: an 'explain' or 'quiz' whose model call fails, and a 'quiz' whose
\* response holds no array, a malformed one or the empty one, changes neither
\* the record nor the file and does not enter take_quiz; 'progress', 'help'
\* and unrecognized input change neither the record nor the file.
C9_NoEffect ==
    [][ pc = "prompt" =>
          /\ ( /\ Command(Normalise(line')) \in {"explain", "quiz"}
               /\ \E i \in DOMAIN out' : out'[i] \in FailureMessages )
             => /\ progress' = progress
                /\ file' = file
                /\ pc' = "prompt"
                /\ UNCHANGED <<quiz_data, qi, score>>
          /\ ( /\ Command(Normalise(line')) = "quiz"
               /\ \A i \in DOMAIN out' : out'[i] \notin FailureMessages
               /\ (~HoldsArray(text') \/ Len(Bracketed(text')) = 2) )
             => /\ progress' = progress
                /\ file' = file
                /\ pc' = "prompt"
                /\ UNCHANGED <<quiz_data, qi, score>>
          /\ Command(Normalise(line')) \in {"progress", "help", "unknown"}
             => /\ progress' = progress
                /\ file' = file
                /\ pc' # "quiz"
      ]_vars

\* C9, its case: with a topic and a quiz on record, a 'quiz' has just failed
\* on a rate limit
C9_Witness ==
    /\ pc = "prompt"
    /\ out = <<"generating", "rate_limit", "couldnt_generate">>
    /\ IsProgressRecord(progress)
    /\ TopicsStudied # <<>>
    /\ QuizScores # <<>>

====
